---- MODULE Spec2Model ----
(***************************************************************************)
(* A model of backend/main.py: the Crack Bank API.                         *)
(*                                                                         *)
(* The process holds a breach dataset loaded once at import time and an    *)
(* environment variable with the AI credential.  Three endpoints are       *)
(* served by one asyncio event loop: GET / (a plain function, dispatched   *)
(* by the loop to a worker thread), POST /check-breach and                 *)
(* POST /summarize-breach (both `async def`, so they run on the loop       *)
(* itself and contain no await).                                           *)
(*                                                                         *)
(* Strings that are compared or measured (details) are sequences of        *)
(* characters; messages are sequences of tokens so that text interpolated  *)
(* into a message can be found in it again.                                *)
(***************************************************************************)
EXTENDS Integers, Sequences, FiniteSets, TLC

VARIABLES
    BREACH_DATABASE,   \* the dataset, a sequence of entries in dict iteration order
    api_key,           \* the value of GOOGLE_API_KEY in the process environment
    req,               \* per connection: the request being served
    pc,                \* per connection: where its handling stands
    found_breaches,    \* per connection: the handler's local found_breaches
    response,          \* per connection: what the caller has received
    console,           \* per connection: the notifications printed while serving it
    posts,             \* per connection: the outbound POSTs issued while serving it
    upstream,          \* per connection: what the AI endpoint answered
    loop               \* the connection whose handler occupies the event loop thread

vars == <<BREACH_DATABASE, api_key, req, pc, found_breaches, response,
          console, posts, upstream, loop>>

-----------------------------------------------------------------------------
(* Bounds of the model *)

MaxDetailLen == 9
MaxLeaked == 2
MaxBreachData == 2

(* The length test of line 85 *)
MIN_DETAIL_LEN == 8

-----------------------------------------------------------------------------
(* Values *)

None == "<None>"
NA == "N/A"
Free == "<free>"

Conns == {"c1", "c2"}

Alphabet == {"0", "1"}

\* The string of n characters that is all "0" but for its last character c.
Str(n, c) == [i \in 1..n |-> IF i = n THEN c ELSE "0"]

Details == {Str(n, c) : n \in 0..MaxDetailLen, c \in Alphabet}

Emails == {None, "", "user@example.com"}

Truthy(s) == s # None /\ s # ""

Range(s) == {s[i] : i \in 1..Len(s)}

\* dict.get(key, default) on a mapping
Get(d, k, default) == IF k \in DOMAIN d THEN d[k] ELSE default

EmptyDict == [k \in {} |-> None]

-----------------------------------------------------------------------------
(* The dataset: breaches.json as load_breach_data returns it *)

LeakPool == {Str(MIN_DETAIL_LEN, c) : c \in Alphabet}

LeakedLists == UNION {[1..n -> LeakPool] : n \in 0..MaxLeaked}

\* The fields of each entry other than its leaked details.  BankX has no
\* description: .get() yields None for it.
EntryInfo(name) ==
    IF name = "LeakCo"
    THEN [date |-> "2023-01-01", risk_level |-> "high", description |-> "x"]
    ELSE [date |-> "2024-06-30", risk_level |-> "low"]

Names == {"LeakCo", "BankX"}

Entry(name, leaked) ==
    [name |-> name, info |-> EntryInfo(name) @@ [leaked_details |-> leaked]]

\* An entry may also lack the leaked_details key altogether.
Entries ==
    {Entry(n, l) : n \in Names, l \in LeakedLists}
        \cup {[name |-> n, info |-> EntryInfo(n)] : n \in Names}

\* A JSON object has distinct keys; a missing file loads as the empty mapping.
Datasets ==
    {<<>>} \cup {<<e>> : e \in Entries}
           \cup {<<e1, e2>> : e1 \in {e \in Entries : e.name = "LeakCo"},
                              e2 \in {e \in Entries : e.name = "BankX"}}
           \cup {<<e1, e2>> : e1 \in {e \in Entries : e.name = "BankX"},
                              e2 \in {e \in Entries : e.name = "LeakCo"}}

load_breach_data == Datasets

ExampleDataset == <<Entry("LeakCo", <<Str(MIN_DETAIL_LEN, "1")>>)>>

-----------------------------------------------------------------------------
(* Responses *)

NoResponse == [status |-> 0]

NoRequest == [kind |-> "none"]

NoOutcome == [kind |-> "none"]

Ok(body) == [status |-> 200, body |-> body]

\* raise HTTPException(status_code, detail): FastAPI answers {"detail": detail}
HTTPException(status_code, detail) == [status |-> status_code, detail |-> detail]

\* An exception that leaves the handler: the server answers a bare 500.
Unhandled(type) == [status |-> 500, unhandled |-> type]

InvalidDetailMsg == <<"Invalid banking detail provided.">>

-----------------------------------------------------------------------------
(* POST /check-breach *)

BreachCheckRequest(detail, email) ==
    [kind |-> "check", detail |-> detail, email |-> email]

CheckBodies == {BreachCheckRequest(d, e) : d \in Details, e \in Emails}

IsInvalidDetail_OffByOne(user_detail) ==
    Len(user_detail) = 0 \/ Len(user_detail) <= MIN_DETAIL_LEN

\* line 85: not user_detail or len(user_detail) < 8
IsInvalidDetail(user_detail) ==
    Len(user_detail) = 0 \/ Len(user_detail) < MIN_DETAIL_LEN

LeakedMatch_Prefix(user_detail, item) ==
    /\ Len(item) <= Len(user_detail)
    /\ \A i \in 1..Len(item) : item[i] = user_detail[i]

\* line 92: user_detail == item
LeakedMatch(user_detail, item) == user_detail = item

\* line 92: any(user_detail == item for item in ...), left to right
RECURSIVE AnyLeaked(_, _, _)
AnyLeaked(user_detail, items, i) ==
    IF i > Len(items) THEN FALSE
    ELSE IF LeakedMatch(user_detail, items[i]) THEN TRUE
    ELSE AnyLeaked(user_detail, items, i + 1)

\* lines 93-98: the record appended for a matching entry
BreachRecord(entry) ==
    [source |-> entry.name,
     date |-> Get(entry.info, "date", None),
     risk_level |-> Get(entry.info, "risk_level", None),
     description |-> Get(entry.info, "description", None)]

\* lines 88-98: the scan over BREACH_DATABASE.items()
RECURSIVE ScanFrom(_, _, _, _)
ScanFrom(db, user_detail, i, found) ==
    IF i > Len(db) THEN found
    ELSE ScanFrom(db, user_detail, i + 1,
             IF AnyLeaked(user_detail, Get(db[i].info, "leaked_details", <<>>), 1)
             THEN Append(found, BreachRecord(db[i]))
             ELSE found)

FoundBreaches(db, user_detail) == ScanFrom(db, user_detail, 1, <<>>)

ShouldNotify_AnyEmail(email, found) == Truthy(email)

\* lines 103-105: if found_breaches: if request.email:
ShouldNotify(email, found) == found # <<>> /\ Truthy(email)

\* lines 51-67: what send_breach_notification prints
send_breach_notification(email, breaches) ==
    [to |-> email,
     lines |-> [i \in 1..Len(breaches) |->
                  [source |-> Get(breaches[i], "source", NA),
                   date |-> Get(breaches[i], "date", NA)]]]

\* lines 103-109
CheckResponse(found) ==
    IF found # <<>>
    THEN Ok([breached |-> TRUE, breaches |-> found])
    ELSE Ok([breached |-> FALSE])

-----------------------------------------------------------------------------
(* POST /summarize-breach *)

Keys == {"KEY_A", "KEY_B"}

\* os.getenv: unset, set to the empty string, or set to a key
EnvValues == {None, ""} \cup Keys

\* breach_data is declared `list`: its elements are any JSON values.
JsonObject(fields) == [json |-> "object", fields |-> fields]
JsonString(s) == [json |-> "string", value |-> s]

Elements ==
    {JsonObject([source |-> "LeakCo", date |-> "2023-01-01",
                 risk_level |-> "high", description |-> "x"]),
     JsonObject([source |-> "BankX"]),
     JsonString("ACC123456")}

AISummaryRequest(breach_data) ==
    [kind |-> "summarize", breach_data |-> breach_data]

SummaryBodies ==
    {AISummaryRequest(bd) :
        bd \in UNION {[1..n -> Elements] : n \in 0..MaxBreachData}}

NoKeyMsg == <<"Google API key not configured.">>
NoDataMsg == <<"No breach data provided.">>
EmptyAnswerMsg == <<"Failed to get a valid response from AI model.">>
InternalMsg == <<"An internal error occurred while processing the AI summary.">>
UnavailablePrefix == <<"Error communicating with the AI service: ">>

Preconditions_NoDataCheck(key, breach_data) ==
    IF ~Truthy(key) THEN HTTPException(500, NoKeyMsg) ELSE NoResponse

\* lines 116-121: the two early raises, in the order the code makes them;
\* NoResponse when both pass.
Preconditions(key, breach_data) ==
    IF ~Truthy(key) THEN HTTPException(500, NoKeyMsg)
    ELSE IF Len(breach_data) = 0 THEN HTTPException(400, NoDataMsg)
    ELSE NoResponse

\* lines 124-132: one block per element; .get exists on mappings only.
RECURSIVE RenderFrom(_, _, _)
RenderFrom(breach_data, i, text) ==
    IF i > Len(breach_data) THEN [raised |-> None, text |-> text]
    ELSE IF breach_data[i].json # "object" THEN [raised |-> "AttributeError"]
    ELSE RenderFrom(breach_data, i + 1,
             Append(text, [breach |-> i,
                           source |-> Get(breach_data[i].fields, "source", NA),
                           date |-> Get(breach_data[i].fields, "date", NA),
                           risk_level |-> Get(breach_data[i].fields, "risk_level", NA),
                           description |-> Get(breach_data[i].fields, "description", NA)]))

breach_details_text(breach_data) == RenderFrom(breach_data, 1, <<>>)

\* lines 134-148
system_prompt == "You are a world-class cybersecurity analyst. Your name is 'Cypher'."

user_prompt(text) ==
    [intro |-> "My banking detail was found in the following data breach(es):",
     breaches |-> text,
     ask |-> "## Recommended Actions"]

\* line 150: the key is interpolated into the query string
UrlPrefix == "https://generativelanguage.googleapis.com/v1beta/models/gemini-2.5-flash-preview-05-20:generateContent?key="

api_url(key) == <<UrlPrefix, key>>

\* lines 152-155
payload(text) ==
    [contents |-> user_prompt(text), systemInstruction |-> system_prompt]

\* What the AI endpoint can do with one POST.
\*   connection_error: requests.post raises; the text of a connection error
\*     names the URL it was sent to, the text of a read timeout does not.
\*   response: a status and, for a JSON body, the decoded value.
\*   not_json: a 2xx response whose body does not decode; response.json()
\*     raises requests' JSONDecodeError (a RequestException) or, with an
\*     older requests, a plain ValueError.
JsonBodies ==
    <<EmptyDict,
      [candidates |-> <<>>],
      [candidates |-> <<EmptyDict>>],
      [candidates |-> <<[content |-> EmptyDict]>>],
      [candidates |-> <<[content |-> [parts |-> <<>>]]>>],
      [candidates |-> <<[content |-> [parts |-> <<EmptyDict>>]]>>],
      [candidates |-> <<[content |-> [parts |-> <<[text |-> ""]>>]]>>],
      [candidates |-> <<[content |-> [parts |-> <<[text |-> "Summary"]>>]]>>]>>

ErrorStatuses == {429, 500}

\* How an HTTPError begins: "<status> <Client|Server> Error: <reason> for url: "
StatusText(status) ==
    IF status < 500
    THEN "429 Client Error: Too Many Requests for url: "
    ELSE "500 Server Error: Internal Server Error for url: "

Outcomes ==
    {[kind |-> "connection_error", names_url |-> b] : b \in BOOLEAN}
        \cup {[kind |-> "response", status |-> s, body |-> 0] : s \in ErrorStatuses}
        \cup {[kind |-> "response", status |-> 200, body |-> i] :
                 i \in 1..Len(JsonBodies)}
        \cup {[kind |-> "not_json", error |-> e] :
                 e \in {"requests.JSONDecodeError", "ValueError"}}

RequestExceptions ==
    {"ConnectionError", "ReadTimeout", "HTTPError", "requests.JSONDecodeError"}

Raise(type, str) == [raised |-> type, str |-> str]

\* line 158: requests.post
Post(outcome, url) ==
    IF outcome.kind = "connection_error"
    THEN IF outcome.names_url
         THEN Raise("ConnectionError", <<"Max retries exceeded with url: ">> \o url)
         ELSE Raise("ReadTimeout", <<"Read timed out.">>)
    ELSE [raised |-> None]

\* line 159: response.raise_for_status()
raise_for_status(outcome, url) ==
    IF outcome.kind = "response" /\ outcome.status >= 400 /\ outcome.status < 600
    THEN Raise("HTTPError", <<StatusText(outcome.status)>> \o url)
    ELSE [raised |-> None]

\* line 160: response.json()
Json(outcome) ==
    IF outcome.kind = "not_json"
    THEN Raise(outcome.error, <<"Expecting value: line 1 column 1 (char 0)">>)
    ELSE [raised |-> None, result |-> JsonBodies[outcome.body]]

\* lines 162-163: result.get("candidates", [{}])[0]
\*                candidate.get("content", {}).get("parts", [{}])[0].get("text", "")
ExtractContent(result) ==
    LET candidates == Get(result, "candidates", <<EmptyDict>>) IN
    IF Len(candidates) = 0 THEN Raise("IndexError", <<"list index out of range">>)
    ELSE LET parts == Get(Get(candidates[1], "content", EmptyDict),
                          "parts", <<EmptyDict>>) IN
         IF Len(parts) = 0 THEN Raise("IndexError", <<"list index out of range">>)
         ELSE [raised |-> None, content |-> Get(parts[1], "text", "")]

\* lines 158-168: the body of the try; a record with `raised` set when an
\* exception leaves it, and the answer otherwise.
TryBody(outcome, url) ==
    IF Post(outcome, url).raised # None THEN Post(outcome, url)
    ELSE IF raise_for_status(outcome, url).raised # None
         THEN raise_for_status(outcome, url)
    ELSE IF Json(outcome).raised # None THEN Json(outcome)
    ELSE LET got == ExtractContent(Json(outcome).result) IN
         IF got.raised # None THEN got
         ELSE IF got.content = ""
              THEN [raised |-> "HTTPException",
                    exc |-> HTTPException(500, EmptyAnswerMsg),
                    str |-> EmptyAnswerMsg]
              ELSE [raised |-> None, answer |-> Ok([summary |-> got.content])]

ExceptClauses_CatchAllFirst(e) == HTTPException(500, InternalMsg)

\* lines 170-175: the two except clauses, tried in order.  HTTPException is
\* an Exception and no RequestException, so the second one takes it.
ExceptClauses(e) ==
    IF e.raised \in RequestExceptions
    THEN HTTPException(503, UnavailablePrefix \o e.str)
    ELSE HTTPException(500, InternalMsg)

\* lines 157-175
TryExcept(outcome, url) ==
    LET r == TryBody(outcome, url) IN
    IF r.raised = None THEN r.answer ELSE ExceptClauses(r)

-----------------------------------------------------------------------------
(* Actions *)

\* A client sends a request on connection c; the kernel queues it until the
\* event loop reads it.
Arrive(c, body) ==
    /\ pc[c] \in {"idle", "done"}
    /\ req' = [req EXCEPT ![c] = body]
    /\ pc' = [pc EXCEPT ![c] = "queued"]
    /\ found_breaches' = [found_breaches EXCEPT ![c] = <<>>]
    /\ response' = [response EXCEPT ![c] = NoResponse]
    /\ console' = [console EXCEPT ![c] = <<>>]
    /\ posts' = [posts EXCEPT ![c] = <<>>]
    /\ upstream' = [upstream EXCEPT ![c] = NoOutcome]
    /\ UNCHANGED <<BREACH_DATABASE, api_key, loop>>

\* lines 82-101: check_breach up to and into time.sleep(2).  The handler is a
\* coroutine with no await, so the loop thread is held while it sleeps.
CheckBreachBegin(c) ==
    /\ pc[c] = "queued"
    /\ req[c].kind = "check"
    /\ loop = Free
    /\ IF IsInvalidDetail(req[c].detail)
       THEN /\ response' = [response EXCEPT
                               ![c] = HTTPException(400, InvalidDetailMsg)]
            /\ pc' = [pc EXCEPT ![c] = "done"]
            /\ UNCHANGED <<found_breaches, loop>>
       ELSE /\ found_breaches' = [found_breaches EXCEPT
                   ![c] = FoundBreaches(BREACH_DATABASE, req[c].detail)]
            /\ pc' = [pc EXCEPT ![c] = "sleeping"]
            /\ loop' = c
            /\ UNCHANGED response
    /\ UNCHANGED <<BREACH_DATABASE, api_key, req, console, posts, upstream>>

\* lines 101-109: time.sleep returns; notify and answer.
CheckBreachEnd(c) ==
    /\ pc[c] = "sleeping"
    /\ loop = c
    /\ console' = [console EXCEPT ![c] =
           IF ShouldNotify(req[c].email, found_breaches[c])
           THEN Append(@, send_breach_notification(req[c].email, found_breaches[c]))
           ELSE @]
    /\ response' = [response EXCEPT ![c] = CheckResponse(found_breaches[c])]
    /\ pc' = [pc EXCEPT ![c] = "done"]
    /\ loop' = Free
    /\ UNCHANGED <<BREACH_DATABASE, api_key, req, found_breaches, posts, upstream>>

\* GET /: read_root is a plain function; the loop reads the request and hands
\* it to a worker thread, which it can only do when it is running.
ReadRoot(c) ==
    /\ pc[c] = "queued"
    /\ req[c].kind = "root"
    /\ loop = Free
    /\ response' = [response EXCEPT
                       ![c] = Ok([status |-> "Crack Bank API is running"])]
    /\ pc' = [pc EXCEPT ![c] = "done"]
    /\ UNCHANGED <<BREACH_DATABASE, api_key, req, found_breaches, console,
                   posts, upstream, loop>>

\* lines 116-158: summarize_breach_with_ai up to and into requests.post, a
\* blocking call made on the loop thread.
SummarizeBegin(c) ==
    /\ pc[c] = "queued"
    /\ req[c].kind = "summarize"
    /\ loop = Free
    /\ LET pre == Preconditions(api_key, req[c].breach_data)
           text == breach_details_text(req[c].breach_data)
       IN  IF pre # NoResponse
           THEN /\ response' = [response EXCEPT ![c] = pre]
                /\ pc' = [pc EXCEPT ![c] = "done"]
                /\ UNCHANGED <<posts, loop>>
           ELSE IF text.raised # None
           THEN /\ response' = [response EXCEPT ![c] = Unhandled(text.raised)]
                /\ pc' = [pc EXCEPT ![c] = "done"]
                /\ UNCHANGED <<posts, loop>>
           ELSE /\ posts' = [posts EXCEPT ![c] =
                       Append(@, [url |-> api_url(api_key),
                                  json |-> payload(text.text)])]
                /\ pc' = [pc EXCEPT ![c] = "posting"]
                /\ loop' = c
                /\ UNCHANGED response
    /\ UNCHANGED <<BREACH_DATABASE, api_key, req, found_breaches, console, upstream>>

\* lines 158-175: the POST ends one way or another; classify and answer.
SummarizeEnd(c, outcome) ==
    /\ pc[c] = "posting"
    /\ loop = c
    /\ upstream' = [upstream EXCEPT ![c] = outcome]
    /\ response' = [response EXCEPT ![c] = TryExcept(outcome, api_url(api_key))]
    /\ pc' = [pc EXCEPT ![c] = "done"]
    /\ loop' = Free
    /\ UNCHANGED <<BREACH_DATABASE, api_key, req, found_breaches, console, posts>>

-----------------------------------------------------------------------------
(* One client, check-breach only, over every dataset *)

InitConns ==
    /\ req = [c \in Conns |-> NoRequest]
    /\ pc = [c \in Conns |-> "idle"]
    /\ found_breaches = [c \in Conns |-> <<>>]
    /\ response = [c \in Conns |-> NoResponse]
    /\ console = [c \in Conns |-> <<>>]
    /\ posts = [c \in Conns |-> <<>>]
    /\ upstream = [c \in Conns |-> NoOutcome]
    /\ loop = Free

InitCheck ==
    /\ BREACH_DATABASE \in load_breach_data
    /\ api_key = None
    /\ InitConns

NextCheck ==
    \/ \E body \in CheckBodies : Arrive("c1", body)
    \/ CheckBreachBegin("c1")
    \/ CheckBreachEnd("c1")

SpecCheck == InitCheck /\ [][NextCheck]_vars

-----------------------------------------------------------------------------
(* One client, summarize-breach only, over every environment and upstream *)

InitSummarize ==
    /\ BREACH_DATABASE = ExampleDataset
    /\ api_key \in EnvValues
    /\ InitConns

NextSummarize ==
    \/ \E body \in SummaryBodies : Arrive("c1", body)
    \/ SummarizeBegin("c1")
    \/ \E outcome \in Outcomes : SummarizeEnd("c1", outcome)

SpecSummarize == InitSummarize /\ [][NextSummarize]_vars

-----------------------------------------------------------------------------
(* Two clients at once, every endpoint *)

RootRequest == [kind |-> "root"]

LoopBodies ==
    {RootRequest}
        \cup {BreachCheckRequest(Str(MIN_DETAIL_LEN, c), e) :
                 c \in Alphabet, e \in {None, "user@example.com"}}
        \cup {AISummaryRequest(<<e>>) : e \in Elements}

InitLoop ==
    /\ BREACH_DATABASE = ExampleDataset
    /\ api_key \in {None, "KEY_A"}
    /\ InitConns

Handle(c) == ReadRoot(c) \/ CheckBreachBegin(c) \/ SummarizeBegin(c)

NextLoop ==
    \E c \in Conns :
        \/ \E body \in LoopBodies : Arrive(c, body)
        \/ ReadRoot(c)
        \/ CheckBreachBegin(c)
        \/ CheckBreachEnd(c)
        \/ SummarizeBegin(c)
        \/ \E outcome \in Outcomes : SummarizeEnd(c, outcome)

SpecLoop == InitLoop /\ [][NextLoop]_vars

-----------------------------------------------------------------------------
(* Properties *)

Done(c, kind) == pc[c] = "done" /\ req[c].kind = kind

\* The lookup stated over sets: the entries, in dataset order, one of whose
\* leaked details is the detail.
RefMatches(db, detail) ==
    LET Hit(e) == /\ "leaked_details" \in DOMAIN e.info
                  /\ \E item \in Range(e.info.leaked_details) : item = detail
        hits == SelectSeq(db, Hit)
        Field(e, f) == IF f \in DOMAIN e.info THEN e.info[f] ELSE None
    IN  [i \in 1..Len(hits) |->
            [source |-> hits[i].name,
             date |-> Field(hits[i], "date"),
             risk_level |-> Field(hits[i], "risk_level"),
             description |-> Field(hits[i], "description")]]

\* C1: for every dataset and every detail of at least 8 characters, the
\* answer of check-breach is the reference lookup: breaches lists exactly the
\* entries holding the detail, once each and in dataset order; breached says
\* whether there is one; with none the answer is {breached: false} and has
\* no breaches field.
C1_ResponseIsReferenceLookup ==
    \A c \in Conns :
        (Done(c, "check") /\ Len(req[c].detail) >= 8) =>
            LET m == RefMatches(BREACH_DATABASE, req[c].detail) IN
            /\ response[c].status = 200
            /\ response[c].body.breached = (Len(m) > 0)
            /\ IF Len(m) = 0
               THEN DOMAIN response[c].body = {"breached"}
               ELSE response[c].body.breaches = m

\* Two entries hold the detail, the first of them twice.
C1_Witness ==
    /\ Done("c1", "check")
    /\ Len(BREACH_DATABASE) = 2
    /\ "leaked_details" \in DOMAIN BREACH_DATABASE[1].info
    /\ BREACH_DATABASE[1].info.leaked_details = <<req["c1"].detail, req["c1"].detail>>
    /\ response["c1"].status = 200
    /\ response["c1"].body.breached
    /\ Len(response["c1"].body.breaches) = 2

\* What one notification shows of the matches m
Notice(email, m) ==
    [to |-> email,
     lines |-> [i \in 1..Len(m) |-> [source |-> m[i].source, date |-> m[i].date]]]

NotifiedAsFor(c, wanted) ==
    LET m == RefMatches(BREACH_DATABASE, req[c].detail) IN
    IF wanted /\ Len(m) > 0
    THEN console[c] = <<Notice(req[c].email, m)>>
    ELSE console[c] = <<>>

\* C2 as stated: for a valid detail the notification is made exactly once,
\* with the email and all matches, when the request carries an email value
\* (any string) and an entry matches, and never otherwise.
C2_NotifyOnEmailValue ==
    \A c \in Conns :
        (Done(c, "check") /\ Len(req[c].detail) >= 8) =>
            NotifiedAsFor(c, req[c].email # None)

\* C2 as amended: for a valid detail the notification is made exactly once,
\* with the email and all matches, when the request carries a non-empty
\* email and an entry matches; never when the email is absent or the empty
\* string, never when nothing matches, and never before the delay is over.
C2_NotifyOnNonEmptyEmail ==
    \A c \in Conns :
        /\ (Done(c, "check") /\ Len(req[c].detail) >= 8) =>
               NotifiedAsFor(c, req[c].email \notin {None, ""})
        /\ pc[c] # "done" => console[c] = <<>>

C2_Witness ==
    /\ Done("c1", "check")
    /\ req["c1"].email = "user@example.com"
    /\ Len(console["c1"]) = 1
    /\ Len(console["c1"][1].lines) = 2
    /\ response["c1"].body.breaches = found_breaches["c1"]

\* C3: a check-breach request whose detail is empty or shorter than 8
\* characters ends in the 400 InvalidInput error, and one of 8 characters or
\* more passes validation: it reaches the lookup and is answered 200.
C3_ValidationBoundary ==
    \A c \in Conns :
        (req[c].kind = "check" /\ pc[c] \in {"sleeping", "done"}) =>
            IF Len(req[c].detail) < 8
            THEN /\ pc[c] = "done"
                 /\ response[c] =
                        [status |-> 400,
                         detail |-> <<"Invalid banking detail provided.">>]
            ELSE pc[c] = "done" => response[c].status = 200

C3_Witness ==
    /\ Done("c1", "check")
    /\ Len(req["c1"].detail) = 7
    /\ response["c1"].status = 400

\* C4 as stated: a summarize-breach request with empty breach_data ends in
\* the 400 InvalidInput error, whether or not a credential is configured.
C4_EmptyDataAlways400 ==
    \A c \in Conns :
        (Done(c, "summarize") /\ Len(req[c].breach_data) = 0) =>
            response[c] = [status |-> 400, detail |-> <<"No breach data provided.">>]

\* C4 as amended: a summarize-breach request with empty breach_data ends in
\* the 400 InvalidInput error when a credential is configured, and in the
\* 500 ConfigurationError when none is (unset or empty).
C4_EmptyDataByCredential ==
    \A c \in Conns :
        (Done(c, "summarize") /\ Len(req[c].breach_data) = 0) =>
            IF api_key \notin {None, ""}
            THEN response[c] =
                     [status |-> 400, detail |-> <<"No breach data provided.">>]
            ELSE response[c] =
                     [status |-> 500, detail |-> <<"Google API key not configured.">>]

C4_Witness ==
    /\ Done("c1", "summarize")
    /\ Len(req["c1"].breach_data) = 0
    /\ api_key = "KEY_A"
    /\ response["c1"].status = 400

\* The first candidate's first part carries a non-empty text.
UsableText(result) ==
    /\ "candidates" \in DOMAIN result
    /\ Len(result.candidates) > 0
    /\ "content" \in DOMAIN result.candidates[1]
    /\ "parts" \in DOMAIN result.candidates[1].content
    /\ Len(result.candidates[1].content.parts) > 0
    /\ "text" \in DOMAIN result.candidates[1].content.parts[1]
    /\ result.candidates[1].content.parts[1].text # ""

Answered2xx(c) ==
    /\ Len(posts[c]) > 0
    /\ upstream[c].kind = "response"
    /\ upstream[c].status \in 200..299

\* C5: when the upstream answers 2xx with no usable text, the caller gets
\* the UpstreamEmptyResponse error raised for it: 500 with "Failed to get a
\* valid response from AI model.", and not the catch-all's message.
C5_EmptyAnswerSurfaced ==
    \A c \in Conns :
        (Done(c, "summarize") /\ Answered2xx(c)
            /\ ~UsableText(JsonBodies[upstream[c].body])) =>
            response[c] =
                [status |-> 500,
                 detail |-> <<"Failed to get a valid response from AI model.">>]

\* C6: while one request is inside its delay or waiting on the AI call, a
\* request that has arrived on another connection can be handled.
C6_OthersNotBlocked ==
    \A c \in Conns, d \in Conns :
        (c # d /\ pc[c] \in {"sleeping", "posting"} /\ pc[d] = "queued") =>
            ENABLED Handle(d)

NetworkFailure(o) ==
    \/ o.kind = "connection_error"
    \/ o.kind = "response" /\ o.status \notin 200..299

\* C7: with a credential and a non-empty breach_data of any JSON values,
\* every failure that is no failure of the network call, prompt rendering
\* included, reaches the caller as the generic InternalError.
C7_OtherFailuresAreInternalError ==
    \A c \in Conns :
        (Done(c, "summarize") /\ api_key \notin {None, ""}
            /\ Len(req[c].breach_data) > 0
            /\ response[c].status # 200
            /\ ~NetworkFailure(upstream[c])) =>
            response[c] =
                [status |-> 500,
                 detail |-> <<"An internal error occurred while processing the AI summary.">>]

C9_OnePostPerAcceptedCall ==
    \A c \in Conns :
        Done(c, "summarize") =>
            IF api_key \notin {None, ""} /\ Len(req[c].breach_data) > 0
            THEN Len(posts[c]) = 1
            ELSE Len(posts[c]) = 0

\* C10: no answer of summarize-breach contains the credential, and the
\* answer is the one a run with any other credential would have given to the
\* same request and the same upstream behaviour.
C10_CredentialNotInResponse ==
    \A c \in Conns :
        (Done(c, "summarize") /\ api_key \in Keys) =>
            /\ "detail" \in DOMAIN response[c] =>
                   api_key \notin Range(response[c].detail)
            /\ Len(posts[c]) > 0 =>
                   \A k \in Keys :
                       response[c] = TryExcept(upstream[c], api_url(k))

====
